---------------------------- MODULE Spec2Model ----------------------------
(***************************************************************************)
(* A model of phi/geom/_box.py: the axis-aligned boxes Box, Cuboid and     *)
(* GridCell and the operations AbstractBox defines on them.                *)
(*                                                                         *)
(* Numbers.  A tensor component is an IEEE-754 float.  It is modelled as a *)
(* pair <<n, d>>: a rational n/d in lowest terms with d > 0, or one of the *)
(* three special values +inf = <<1, 0>>, -inf = <<-1, 0>>, nan = <<0, 0>>. *)
(* The arithmetic follows IEEE-754 on the special values (inf - inf = nan, *)
(* 0 * inf = nan, x / 0 = +-inf, every comparison with nan is false) and   *)
(* is exact on the rationals: rounding is not modelled, which is what the  *)
(* "within floating tolerance" of the documentation abstracts from.  The   *)
(* sign of zero is not modelled (every zero is +0).                        *)
(*                                                                         *)
(* Tensors.  A tensor with the single channel dimension `vector` is a      *)
(* sequence of numbers; a vector of length 1 broadcasts against any other  *)
(* length.  Batch dimensions are elementwise independent in every          *)
(* operation modelled here and are modelled by one batch element.          *)
(***************************************************************************)
EXTENDS Integers, Sequences, FiniteSets, TLC

VARIABLES heap, last

vars == <<heap, last>>

---------------------------------------------------------------------------
(* IEEE-754 numbers *)

Inf == <<1, 0>>
NInf == <<-1, 0>>
NaN == <<0, 0>>

AbsInt(n) == IF n < 0 THEN -n ELSE n

SignInt(n) == IF n < 0 THEN -1 ELSE IF n > 0 THEN 1 ELSE 0

RECURSIVE Gcd(_, _)
Gcd(a, b) == IF b = 0 THEN a ELSE Gcd(b, a % b)

\* The rational n/d (d > 0) in lowest terms.
Rat(n, d) ==
    LET g == Gcd(AbsInt(n), d)
    IN  <<(SignInt(n) * (AbsInt(n) \div g)), d \div g>>

Num(i) == <<i, 1>>

IsNaN(x) == x = NaN

IsInf(x) == x[2] = 0 /\ x[1] # 0

IsFinite(x) == x[2] > 0

IsZero(x) == x[2] > 0 /\ x[1] = 0

\* The sign of a number that is not nan: -1, 0 or 1.
Sign(x) == SignInt(x[1])

Neg(x) == <<-x[1], x[2]>>

Add(x, y) ==
    IF IsNaN(x) \/ IsNaN(y) THEN NaN
    ELSE IF IsInf(x) /\ IsInf(y) THEN (IF x = y THEN x ELSE NaN)
    ELSE IF IsInf(x) THEN x
    ELSE IF IsInf(y) THEN y
    ELSE Rat(x[1] * y[2] + y[1] * x[2], x[2] * y[2])

Sub(x, y) == Add(x, Neg(y))

Mul(x, y) ==
    IF IsNaN(x) \/ IsNaN(y) THEN NaN
    ELSE IF IsInf(x) \/ IsInf(y)
         THEN (IF IsZero(x) \/ IsZero(y) THEN NaN ELSE <<Sign(x) * Sign(y), 0>>)
    ELSE Rat(x[1] * y[1], x[2] * y[2])

Div(x, y) ==
    IF IsNaN(x) \/ IsNaN(y) THEN NaN
    ELSE IF IsInf(x) THEN (IF IsInf(y) THEN NaN
                           ELSE IF Sign(y) < 0 THEN Neg(x) ELSE x)
    ELSE IF IsInf(y) THEN Num(0)
    ELSE IF IsZero(y) THEN (IF IsZero(x) THEN NaN ELSE <<Sign(x), 0>>)
    ELSE Rat(Sign(y) * x[1] * y[2], x[2] * AbsInt(y[1]))

Abs(x) == <<AbsInt(x[1]), x[2]>>

\* x <= y; false when either is nan.
Leq(x, y) ==
    IF IsNaN(x) \/ IsNaN(y) THEN FALSE
    ELSE IF IsInf(x) \/ IsInf(y)
         THEN (x = y \/ x = NInf \/ y = Inf)
    ELSE x[1] * y[2] <= y[1] * x[2]

Geq(x, y) == Leq(y, x)

\* x == y; false when either is nan.
EqNum(x, y) == ~IsNaN(x) /\ ~IsNaN(y) /\ x = y

Lt(x, y) == Leq(x, y) /\ ~EqNum(x, y)

Gt(x, y) == Lt(y, x)

\* max of two numbers as numpy's reduction takes it: nan propagates.
Max2(x, y) ==
    IF IsNaN(x) \/ IsNaN(y) THEN NaN
    ELSE IF Leq(x, y) THEN y ELSE x

---------------------------------------------------------------------------
(* Tensors with one `vector` dimension *)

MaxInt(a, b) == IF a < b THEN b ELSE a

\* Two vectors broadcast when their lengths agree or one of them is 1.
Broadcastable(u, v) == Len(u) = Len(v) \/ Len(u) = 1 \/ Len(v) = 1

At(u, i) == IF Len(u) = 1 THEN u[1] ELSE u[i]

VAdd(u, v) == [i \in 1..MaxInt(Len(u), Len(v)) |-> Add(At(u, i), At(v, i))]

VSub(u, v) == [i \in 1..MaxInt(Len(u), Len(v)) |-> Sub(At(u, i), At(v, i))]

VMul(u, v) == [i \in 1..MaxInt(Len(u), Len(v)) |-> Mul(At(u, i), At(v, i))]

VDiv(u, v) == [i \in 1..MaxInt(Len(u), Len(v)) |-> Div(At(u, i), At(v, i))]

VScale(k, u) == [i \in 1..Len(u) |-> Mul(k, u[i])]

VAbs(u) == [i \in 1..Len(u) |-> Abs(u[i])]

\* math.max(u, 'vector')
RECURSIVE VMax(_)
VMax(u) == IF Len(u) = 1 THEN u[1] ELSE Max2(u[1], VMax(Tail(u)))

\* math.all(location >= lower & location <= upper, 'vector')
AllBetween(lo, x, hi) ==
    \A i \in 1..MaxInt(Len(x), MaxInt(Len(lo), Len(hi))) :
        Geq(At(x, i), At(lo, i)) /\ Leq(At(x, i), At(hi, i))

\* np.all(u >= v)
AllGeq(u, v) == \A i \in 1..MaxInt(Len(u), Len(v)) : Geq(At(u, i), At(v, i))

AllLeq(u, v) == \A i \in 1..MaxInt(Len(u), Len(v)) : Leq(At(u, i), At(v, i))

Half == Rat(1, 2)

---------------------------------------------------------------------------
(* Box and Cuboid: the stored pair and the derived properties *)

\* Box.__init__: the two corner tensors are stored.
Box(lo, hi) == [cls |-> "Box", lower |-> lo, upper |-> hi]

\* Cuboid.__init__: center and half size are stored.
Cuboid(c, h) == [cls |-> "Cuboid", center |-> c, half_size |-> h]

IsAbstractBox(o) == o.cls \in {"Box", "Cuboid", "GridCell"}

lower(b) == IF b.cls = "Box" THEN b.lower ELSE VSub(b.center, b.half_size)

upper(b) == IF b.cls = "Box" THEN b.upper ELSE VAdd(b.center, b.half_size)

size(b) ==
    IF b.cls = "Box" THEN VSub(upper(b), lower(b))
    ELSE VScale(Num(2), b.half_size)

center(b) ==
    IF b.cls = "Box" THEN VScale(Half, VAdd(lower(b), upper(b)))
    ELSE b.center

half_size(b) ==
    IF b.cls = "Box" THEN VScale(Half, size(b)) ELSE b.half_size

rank(b) == Len(size(b))

---------------------------------------------------------------------------
(* AbstractBox: the operations defined on the four properties *)

\* The factor of bounding_radius, 1.414214.
Sqrt2 == Rat(1414214, 1000000)

\* bounding_radius without the factor.
bounding_radius_unscaled(b) == VMax(size(b))

bounding_radius(b) == Mul(VMax(size(b)), Sqrt2)

bounding_half_extent(b) == VScale(Half, size(b))

global_to_local(b, global_position) ==
    VDiv(VSub(global_position, lower(b)), size(b))

\* local_to_global without the offset of the lower corner.
local_to_global_unanchored(b, local_position) == VMul(local_position, size(b))

local_to_global(b, local_position) ==
    VAdd(VMul(local_position, size(b)), lower(b))

lies_inside(b, location) == AllBetween(lower(b), location, upper(b))

\* approximate_signed_distance taking the whole extent for the half extent.
approximate_signed_distance_full_extent(b, location) ==
    LET c == VScale(Half, VAdd(lower(b), upper(b)))
        extent == VSub(upper(b), lower(b))
        distance == VSub(VAbs(VSub(location, c)), extent)
    IN  VMax(distance)

approximate_signed_distance(b, location) ==
    LET c == VScale(Half, VAdd(lower(b), upper(b)))
        extent == VSub(upper(b), lower(b))
        distance == VSub(VAbs(VSub(location, c)), VScale(Half, extent))
    IN  VMax(distance)

\* _get returning the first component whatever the axis.
GetFirst(vector, axis) == vector[1]

\* AbstractBox._get; axis counts from 0 as in the source.
Get(vector, axis) == IF Len(vector) = 1 THEN vector[1] ELSE vector[axis + 1]

get_lower(b, axis) == Get(lower(b), axis)

get_upper(b, axis) == Get(upper(b), axis)

corner_representation(b) == Box(lower(b), upper(b))

center_representation(b) == Cuboid(center(b), half_size(b))

\* contains comparing the lower corners only.
contains_lower_only(b, other) == AllGeq(lower(other), lower(b))

\* AbstractBox.contains for an AbstractBox argument.
contains(b, other) ==
    AllGeq(lower(other), lower(b)) /\ AllLeq(upper(other), upper(b))

---------------------------------------------------------------------------
(* BoxType, Box, Cuboid, bounding_box *)

\* A slice bound left blank.
None == <<>>

Slice(start, stop, step) == [start |-> start, stop |-> stop, step |-> step]

\* The asserts of BoxType.__getitem__ on the slices of item.
SlicesAccepted(item) ==
    \A i \in 1..Len(item) : item[i].step = None \/ item[i].step = Num(1)

\* BoxType.__getitem__ with a blank start taken as 0.
BoxGetItemFromZero(item) ==
    Box([i \in 1..Len(item) |->
            IF item[i].start # None THEN item[i].start ELSE Num(0)],
        [i \in 1..Len(item) |->
            IF item[i].stop # None THEN item[i].stop ELSE Inf])

\* BoxType.__getitem__: a blank start is -inf, a blank stop is +inf.
BoxGetItem(item) ==
    Box([i \in 1..Len(item) |->
            IF item[i].start # None THEN item[i].start ELSE NInf],
        [i \in 1..Len(item) |->
            IF item[i].stop # None THEN item[i].stop ELSE Inf])

\* The positions 0..n-1 other than axis, in increasing order.
RECURSIVE AxesWithout(_, _)
AxesWithout(n, axis) ==
    IF n = 0 THEN <<>>
    ELSE IF n - 1 # axis THEN Append(AxesWithout(n - 1, axis), n - 1)
    ELSE AxesWithout(n - 1, axis)

\* Box.without_axis
without_axis(b, axis) ==
    LET kept == AxesWithout(rank(b), axis)
    IN  Box([i \in 1..Len(kept) |-> get_lower(b, kept[i])],
            [i \in 1..Len(kept) |-> get_upper(b, kept[i])])

\* Box.shifted and Cuboid.shifted (GridCell inherits Cuboid's).
shifted(b, delta) ==
    IF b.cls = "Box" THEN Box(VAdd(lower(b), delta), VAdd(upper(b), delta))
    ELSE Cuboid(VAdd(b.center, delta), b.half_size)

bounding_box(geometry) ==
    LET c == center(geometry)
        extent == bounding_half_extent(geometry)
    IN  Box(VSub(c, extent), VAdd(c, extent))

---------------------------------------------------------------------------
(* GridCell *)

\* A dimension of a Shape: its kind and its size.
Dim(kind, n) == [kind |-> kind, size |-> n]

\* resolution.spatial_rank == resolution.rank
PurelySpatial(resolution) ==
    \A d \in 1..Len(resolution) : resolution[d].kind = "spatial"

\* resolution.sizes
Sizes(resolution) == [d \in 1..Len(resolution) |-> Num(resolution[d].size)]

\* np.linspace(start, stop, num) for num >= 1, the endpoint included.
linspace(start, stop, num) ==
    [i \in 1..num |->
        IF num = 1 THEN start
        ELSE Add(start, Mul(Num(i - 1), Div(Sub(stop, start), Num(num - 1))))]

RECURSIVE MaxSize(_)
MaxSize(resolution) ==
    IF Len(resolution) = 0 THEN 0
    ELSE MaxInt(Head(resolution).size, MaxSize(Tail(resolution)))

\* The grid points of a resolution: one index 0..size-1 per dimension.
GridPoints(resolution) ==
    {idx \in [1..Len(resolution) -> 0..(MaxSize(resolution) - 1)] :
        \A d \in 1..Len(resolution) : idx[d] < resolution[d].size}

\* The local coordinates of the lower edges of the cells, not of their
\* centers: linspace(0, 1 - 1 / size, size) per dimension.
LocalCoordsOfEdges(resolution) ==
    [idx \in GridPoints(resolution) |->
        [d \in 1..Len(resolution) |->
            LET n == Num(resolution[d].size)
            IN  linspace(Num(0), Sub(Num(1), Div(Num(1), n)),
                         resolution[d].size)[idx[d] + 1]]]

\* math.meshgrid of linspace(0.5 / size, 1 - 0.5 / size, size) per dimension.
LocalCoords(resolution) ==
    [idx \in GridPoints(resolution) |->
        [d \in 1..Len(resolution) |->
            LET n == Num(resolution[d].size)
            IN  linspace(Div(Half, n), Sub(Num(1), Div(Half, n)),
                         resolution[d].size)[idx[d] + 1]]]

\* GridCell.__init__ for a purely spatial resolution.
GridCell(resolution, bounds) ==
    LET local_coords == LocalCoords(resolution)
        points == [idx \in DOMAIN local_coords |->
                      local_to_global(bounds, local_coords[idx])]
    IN  [cls |-> "GridCell",
         center |-> points,
         half_size |-> VDiv(VDiv(size(bounds), Sizes(resolution)), <<Num(2)>>),
         resolution |-> resolution,
         bounds |-> bounds]

---------------------------------------------------------------------------
(* Equality and hash *)

Ok(v) == [exc |-> "", ret |-> v]

Raise(e) == [exc |-> e, ret |-> <<>>]

\* np.isclose on one component: |a - b| <= rel_tolerance * |b|, equal
\* infinities are close, nan is close to nothing.
CloseNum(a, b) ==
    IF IsNaN(a) \/ IsNaN(b) THEN FALSE
    ELSE IF IsInf(a) \/ IsInf(b) THEN a = b
    ELSE Leq(Abs(Sub(a, b)), Mul(Rat(1, 100000), Abs(b)))

\* math.close on two tensors of the same shape.
Close(u, v) == \A i \in 1..Len(u) : CloseNum(u[i], v[i])

\* The shape of the tensor o.lower: the grid dimensions, then `vector`.
LowerShape(o) ==
    IF o.cls = "GridCell"
    THEN [d \in 1..Len(o.resolution) |-> o.resolution[d].size]
             \o <<Len(o.half_size)>>
    ELSE <<Len(lower(o))>>

\* Box.__eq__
BoxEq(b, other) ==
    /\ IsAbstractBox(other)
    /\ LowerShape(b) = LowerShape(other)
    /\ Close(b.lower, lower(other))

\* obj == other, dispatched on the class of obj: Box.__eq__, GridCell.__eq__,
\* and for a Cuboid the inherited AbstractBox.__eq__, which raises.
RECURSIVE Eq(_, _)
Eq(obj, other) ==
    IF obj.cls = "Box" THEN Ok(BoxEq(obj, other))
    ELSE IF obj.cls = "Cuboid" THEN Raise("NotImplementedError")
    ELSE IF other.cls # "GridCell" THEN Ok(FALSE)
    ELSE LET bounds_eq == Eq(obj.bounds, other.bounds)
         IN  IF bounds_eq.exc # "" THEN bounds_eq
             ELSE Ok(bounds_eq.ret /\ obj.resolution = other.resolution)

\* AbstractBox.__ne__: not self == other
Ne(obj, other) ==
    LET eq == Eq(obj, other)
    IN  IF eq.exc # "" THEN eq ELSE Ok(~eq.ret)

HashNum(x) == (x[1] * 31 + x[2]) % 65536

\* hash of a tensor, taken as a function of its contents.
RECURSIVE TensorHash(_)
TensorHash(u) ==
    IF Len(u) = 0 THEN 17
    ELSE (TensorHash(SubSeq(u, 1, Len(u) - 1)) * 31 + HashNum(u[Len(u)])) % 65536

\* hash of a Shape
ShapeHash(resolution) ==
    TensorHash([d \in 1..Len(resolution) |-> Num(resolution[d].size)])

\* hash(obj): Box.__hash__, GridCell.__hash__, and for a Cuboid the inherited
\* AbstractBox.__hash__, which raises.
RECURSIVE Hash(_)
Hash(obj) ==
    IF obj.cls = "Box" THEN Ok(TensorHash(obj.upper))
    ELSE IF obj.cls = "Cuboid" THEN Raise("NotImplementedError")
    ELSE LET bounds_hash == Hash(obj.bounds)
         IN  IF bounds_hash.exc # "" THEN bounds_hash
             ELSE Ok(ShapeHash(obj.resolution) + bounds_hash.ret)

---------------------------------------------------------------------------
(* State.  heap holds the objects constructed so far, an object's identity *)
(* being its position; last is the most recent call: the operation, the    *)
(* receiver's identity, the argument, the exception raised ("" for none),  *)
(* the value returned, and, when the argument was the value the previous   *)
(* call returned, that call's argument (origin).                           *)

NoCall ==
    [op |-> "", self |-> 0, arg |-> <<>>, exc |-> "", ret |-> <<>>,
     origin |-> <<>>]

Call(op, id, arg, result) ==
    [op |-> op, self |-> id, arg |-> arg, exc |-> result.exc,
     ret |-> result.ret, origin |-> <<>>]

\* A call returning a new instance: it is stored at a fresh position.
Instance(h, obj) == [heap |-> Append(h, obj), ret |-> Len(h) + 1]

Returns(op, id, arg, made) ==
    /\ heap' = made.heap
    /\ last' = Call(op, id, arg, Ok(made.ret))

\* A call that returns a value or raises, and constructs nothing.
Answers(op, id, arg, result) ==
    /\ last' = Call(op, id, arg, result)
    /\ UNCHANGED heap

(* Constructors *)

NewBox(lo, hi) ==
    /\ Broadcastable(lo, hi)
    /\ Returns("Box", 0, <<lo, hi>>, Instance(heap, Box(lo, hi)))

GetItem(item) ==
    IF SlicesAccepted(item)
    THEN Returns("__getitem__", 0, item, Instance(heap, BoxGetItem(item)))
    ELSE Answers("__getitem__", 0, item, Raise("AssertionError"))

NewCuboid(c, h) ==
    /\ Broadcastable(c, h)
    /\ Returns("Cuboid", 0, <<c, h>>, Instance(heap, Cuboid(c, h)))

NewGridCell(resolution, id) ==
    /\ Len(resolution) = rank(heap[id]) \/ rank(heap[id]) = 1
    /\ IF PurelySpatial(resolution)
       THEN Returns("GridCell", 0, <<resolution, id>>,
                    Instance(heap, GridCell(resolution, heap[id])))
       ELSE Answers("GridCell", 0, <<resolution, id>>, Raise("AssertionError"))

(* Operations returning a new instance *)

\* shifted moving the receiver itself and returning it.
ShiftedInPlace(h, id, delta) ==
    [heap |-> [h EXCEPT ![id] = shifted(h[id], delta)], ret |-> id]

ShiftedCall(h, id, delta) == Instance(h, shifted(h[id], delta))

Shifted(id, delta) ==
    /\ Broadcastable(lower(heap[id]), delta)
    /\ Returns("shifted", id, delta, ShiftedCall(heap, id, delta))

CornerRepresentation(id) ==
    Returns("corner_representation", id, <<>>,
            Instance(heap, corner_representation(heap[id])))

CenterRepresentation(id) ==
    Returns("center_representation", id, <<>>,
            Instance(heap, center_representation(heap[id])))

WithoutAxis(id, axis) ==
    /\ heap[id].cls = "Box"
    /\ axis < rank(heap[id])
    /\ Returns("without_axis", id, axis,
               Instance(heap, without_axis(heap[id], axis)))

BoundingBox(id) ==
    Returns("bounding_box", id, <<>>, Instance(heap, bounding_box(heap[id])))

(* Queries *)

LiesInside(id, p) ==
    /\ Broadcastable(lower(heap[id]), p)
    /\ Answers("lies_inside", id, p, Ok(lies_inside(heap[id], p)))

ApproximateSignedDistance(id, p) ==
    /\ Broadcastable(lower(heap[id]), p)
    /\ Answers("approximate_signed_distance", id, p,
               Ok(approximate_signed_distance(heap[id], p)))

GlobalToLocal(id, p) ==
    /\ Broadcastable(lower(heap[id]), p)
    /\ Answers("global_to_local", id, p, Ok(global_to_local(heap[id], p)))

LocalToGlobal(id, x) ==
    /\ Broadcastable(lower(heap[id]), x)
    /\ Answers("local_to_global", id, x, Ok(local_to_global(heap[id], x)))

\* local_to_global applied to what global_to_local has just returned.
LocalToGlobalOfLast(id) ==
    /\ last.op = "global_to_local"
    /\ last.self = id
    /\ heap' = heap
    /\ last' = [Call("local_to_global", id, last.ret,
                     Ok(local_to_global(heap[id], last.ret)))
                EXCEPT !.origin = last.arg]

BoundingRadius(id) ==
    Answers("bounding_radius", id, <<>>, Ok(bounding_radius(heap[id])))

Contains(id, other) ==
    Answers("contains", id, other,
            IF IsAbstractBox(other) THEN Ok(contains(heap[id], other))
            ELSE Raise("NotImplementedError"))

EqCall(id, other) == Answers("__eq__", id, other, Eq(heap[id], other))

NeCall(id, other) == Answers("__ne__", id, other, Ne(heap[id], other))

HashCall(id) == Answers("__hash__", id, <<>>, Hash(heap[id]))

---------------------------------------------------------------------------
(* Inputs *)

Ids == 1..Len(heap)

\* The sequences of length 1..n over S.
SeqsUpTo(n, S) == UNION {[1..k -> S] : k \in 1..n}

First(pairs) == [i \in 1..Len(pairs) |-> pairs[i][1]]

Second(pairs) == [i \in 1..Len(pairs) |-> pairs[i][2]]

---------------------------------------------------------------------------
(* SpecPoint: one box, built by any of the three constructors, and the     *)
(* point operations applied to it.                                         *)

MaxRank == 2

\* Per axis: lower and upper of a Box, with positive, zero and negative size.
BoxAxes == {<<Num(1), Num(6)>>, <<Num(1), Num(1)>>, <<Num(6), Num(1)>>}

\* Per axis: the slices 0:5, :5, 0:, : and 0:5:2.
SliceAxes ==
    {Slice(Num(0), Num(5), None), Slice(None, Num(5), None),
     Slice(Num(0), None, Num(1)), Slice(None, None, None),
     Slice(Num(0), Num(5), Num(2))}

\* Per axis: center and half size of a Cuboid.
CuboidAxes == {<<Num(1), Num(1)>>, <<Num(0), Num(0)>>}

PointCoords == {Num(-1000000), Num(0), Num(1), Num(5), Num(6)}

PointsFor(id) == [1..rank(heap[id]) -> PointCoords]

InitPoint == heap = <<>> /\ last = NoCall

\* The last call constructed the box: nothing has been asked of it yet.
Fresh == last.op \in {"Box", "__getitem__", "Cuboid"} /\ last.exc = ""

\* The operations are pure: a behaviour constructs a box and applies one
\* operation to it (and local_to_global to a global_to_local result).
NextPoint ==
    \/ /\ heap = <<>>
       /\ \E axes \in SeqsUpTo(MaxRank, BoxAxes) :
              NewBox(First(axes), Second(axes))
    \/ /\ heap = <<>>
       /\ \E item \in SeqsUpTo(MaxRank, SliceAxes) : GetItem(item)
    \/ /\ heap = <<>>
       /\ \E axes \in SeqsUpTo(MaxRank, CuboidAxes) :
              NewCuboid(First(axes), Second(axes))
    \/ Fresh /\ \E id \in Ids : \E p \in PointsFor(id) : LiesInside(id, p)
    \/ Fresh /\ \E id \in Ids : \E p \in PointsFor(id) :
                     ApproximateSignedDistance(id, p)
    \/ Fresh /\ \E id \in Ids : \E p \in PointsFor(id) : GlobalToLocal(id, p)
    \/ Fresh /\ \E id \in Ids : \E p \in PointsFor(id) : LocalToGlobal(id, p)
    \/ \E id \in Ids : LocalToGlobalOfLast(id)

SpecPoint == InitPoint /\ [][NextPoint]_vars

AllFinite(u) == \A i \in 1..Len(u) : IsFinite(u[i])

\* The box has finite corners.
FiniteBox(b) == AllFinite(lower(b)) /\ AllFinite(upper(b))

\* u == v on every component.
VEq(u, v) == Len(u) = Len(v) /\ \A i \in 1..Len(u) : EqNum(u[i], v[i])

StrictlyPositiveSize(b) == \A i \in 1..rank(b) : Gt(size(b)[i], Num(0))

\* last is local_to_global applied to global_to_local's result for origin.
RoundTripDone ==
    /\ last.op = "local_to_global"
    /\ last.origin # <<>>

\* C1 as stated: for every box of strictly positive size and every point p,
\* local_to_global(global_to_local(p)) equals p.
C1_RoundTripAnyPositiveSize ==
    (RoundTripDone /\ StrictlyPositiveSize(heap[last.self]))
        => VEq(last.ret, last.origin)

\* C1 amended: for every box with finite corners and strictly positive size
\* and every point p, local_to_global(global_to_local(p)) equals p.
C1_RoundTripFinitePositiveSize ==
    (RoundTripDone /\ StrictlyPositiveSize(heap[last.self])
        /\ FiniteBox(heap[last.self]))
        => VEq(last.ret, last.origin)

\* A round trip on a finite box whose lower corner is not the origin, from a
\* point that is neither corner.
C1_Witness ==
    /\ RoundTripDone
    /\ StrictlyPositiveSize(heap[last.self])
    /\ FiniteBox(heap[last.self])
    /\ lower(heap[last.self]) = <<Num(1), Num(1)>>
    /\ last.origin = <<Num(5), Num(0)>>
    /\ last.arg = <<Rat(4, 5), Rat(-1, 5)>>
    /\ last.ret = last.origin

\* lower <= upper on every axis.
Ordered(b) == AllLeq(lower(b), upper(b))

\* lower < p < upper on every axis.
StrictlyInterior(b, p) ==
    \A i \in 1..rank(b) : Lt(lower(b)[i], p[i]) /\ Lt(p[i], upper(b)[i])

\* p < lower or p > upper on some axis.
StrictlyExterior(b, p) ==
    \E i \in 1..rank(b) : Lt(p[i], lower(b)[i]) \/ Gt(p[i], upper(b)[i])

\* p is inside and on a face: equal to lower or upper on some axis.
OnBoundary(b, p) ==
    /\ lies_inside(b, p)
    /\ \E i \in 1..rank(b) : EqNum(p[i], lower(b)[i]) \/ EqNum(p[i], upper(b)[i])

\* The sign of the distance d is the one the place of p asks for.
SignMatchesPlace(b, p, d) ==
    /\ StrictlyInterior(b, p) => Lt(d, Num(0))
    /\ StrictlyExterior(b, p) => Gt(d, Num(0))
    /\ OnBoundary(b, p) => EqNum(d, Num(0))

DistanceTaken == last.op = "approximate_signed_distance"

\* C2 as stated: for every box with lower <= upper, the signed distance is
\* negative strictly inside, positive strictly outside and zero on the
\* boundary.
C2_SignAnyOrderedBox ==
    (DistanceTaken /\ Ordered(heap[last.self]))
        => SignMatchesPlace(heap[last.self], last.arg, last.ret)

\* C2 amended: the same for every box with finite corners and lower <= upper.
C2_SignFiniteOrderedBox ==
    (DistanceTaken /\ Ordered(heap[last.self]) /\ FiniteBox(heap[last.self]))
        => SignMatchesPlace(heap[last.self], last.arg, last.ret)

\* The distance of a strictly interior point of a finite box was taken, and
\* it is negative.
C2_Witness ==
    /\ DistanceTaken
    /\ FiniteBox(heap[last.self])
    /\ rank(heap[last.self]) = 2
    /\ StrictlyInterior(heap[last.self], last.arg)
    /\ last.ret = Num(-1)

\* C8: Box[:5] has lower -inf and upper 5 on that axis, and a point is inside
\* exactly when its coordinate on that axis is <= 5 (the other axes, if any,
\* permitting), however large and negative the coordinate is.
C8_HalfSpace ==
    /\ (last.op = "__getitem__" /\ last.exc = "")
           => \A i \in 1..Len(last.arg) :
                  (last.arg[i].start = None /\ last.arg[i].stop = Num(5))
                      => /\ lower(heap[last.ret])[i] = NInf
                         /\ upper(heap[last.ret])[i] = Num(5)
    /\ last.op = "lies_inside"
           => \A i \in 1..rank(heap[last.self]) :
                  (lower(heap[last.self])[i] = NInf
                       /\ upper(heap[last.self])[i] = Num(5))
                      => /\ Gt(last.arg[i], Num(5)) => last.ret = FALSE
                         /\ (/\ Leq(last.arg[i], Num(5))
                             /\ \A j \in (1..rank(heap[last.self])) \ {i} :
                                    /\ Geq(last.arg[j], lower(heap[last.self])[j])
                                    /\ Leq(last.arg[j], upper(heap[last.self])[j]))
                                => last.ret = TRUE

\* Box[:5] was asked about a large negative coordinate and answered true.
C8_Witness ==
    /\ last.op = "lies_inside"
    /\ heap[last.self] = Box(<<NInf>>, <<Num(5)>>)
    /\ last.arg = <<Num(-1000000)>>
    /\ last.ret = TRUE

---------------------------------------------------------------------------
(* SpecAxis: a Box of rank up to MaxAxisRank, its corners given in full or *)
(* as one component that broadcasts, and without_axis, get_lower and       *)
(* get_upper applied to it.                                                *)

MaxAxisRank == 3

AxisBounds ==
    {<<Num(0), Num(1)>>, <<Num(0), Num(2)>>, <<Num(0), Num(3)>>,
     <<Num(1), Num(2)>>}

\* The 0-based axes of the object id.
AxesOf(id) == 0..(rank(heap[id]) - 1)

GetLower(id, axis) ==
    Answers("get_lower", id, axis, Ok(get_lower(heap[id], axis)))

GetUpper(id, axis) ==
    Answers("get_upper", id, axis, Ok(get_upper(heap[id], axis)))

InitAxis == heap = <<>> /\ last = NoCall

NextAxis ==
    \/ /\ heap = <<>>
       /\ \E axes \in SeqsUpTo(MaxAxisRank, AxisBounds) :
              NewBox(First(axes), Second(axes))
    \/ /\ heap = <<>>
       /\ \E axes \in SeqsUpTo(MaxAxisRank, AxisBounds) :
              NewBox(<<Num(0)>>, Second(axes))
    \/ Fresh /\ \E id \in Ids : \E axis \in AxesOf(id) : WithoutAxis(id, axis)
    \/ Fresh /\ \E id \in Ids : \E axis \in AxesOf(id) : GetLower(id, axis)
    \/ Fresh /\ \E id \in Ids : \E axis \in AxesOf(id) : GetUpper(id, axis)

SpecAxis == InitAxis /\ [][NextAxis]_vars

\* The vector u, broadcast to n components, with the 0-based component k
\* removed.
Removed(u, n, k) == [j \in 1..(n - 1) |-> At(u, IF j <= k THEN j ELSE j + 1)]

\* C7: without_axis(k) on a Box of rank R returns a new Box of rank R-1 whose
\* lower and upper are the original ones with component k removed, the other
\* components in their original order.
C7_WithoutAxis ==
    (last.op = "without_axis" /\ last.exc = "")
        => LET b == heap[last.self]
               r == heap[last.ret]
           IN  /\ last.ret # last.self
               /\ r.cls = "Box"
               /\ rank(r) = rank(b) - 1
               /\ lower(r) = Removed(lower(b), rank(b), last.arg)
               /\ upper(r) = Removed(upper(b), rank(b), last.arg)

\* The scenario of the documentation: lower (0,0,0), upper (1,2,3), axis 1
\* removed, gives lower (0,0), upper (1,3).
C7_Witness ==
    /\ last.op = "without_axis"
    /\ last.arg = 1
    /\ heap[last.self] = Box(<<Num(0), Num(0), Num(0)>>, <<Num(1), Num(2), Num(3)>>)
    /\ heap[last.ret] = Box(<<Num(0), Num(0)>>, <<Num(1), Num(3)>>)

---------------------------------------------------------------------------
(* SpecGrid: a bounds box, a GridCell built over it, and the comparisons   *)
(* ==, != and hash of the three variants, with each other and with objects *)
(* that are no boxes.                                                      *)

MaxGridRank == 2

MaxRes == 4

\* Per axis: lower and upper of the bounds.
GridAxes == {<<Num(0), Num(1)>>, <<Num(1), Num(6)>>}

\* Per axis: bounds given by their center and half size.
GridCuboidAxes == {<<Num(1), Num(1)>>}

\* Per axis: the slices 0:5 and :5.
GridSliceAxes == {Slice(Num(0), Num(5), None), Slice(None, Num(5), None)}

\* The resolutions: purely spatial ones, and ones with a batch dimension.
Resolutions ==
    SeqsUpTo(MaxGridRank, {Dim("spatial", n) : n \in 1..MaxRes})
        \cup {<<Dim("batch", 2)>>, <<Dim("batch", 2), Dim("spatial", 2)>>}

\* Objects that are no AbstractBox.
Foreign == {[cls |-> "str"], [cls |-> "NoneType"]}

Others == {heap[id] : id \in Ids} \cup Foreign

\* The last call constructed an object.
Constructed ==
    last.op \in {"Box", "__getitem__", "Cuboid", "GridCell"} /\ last.exc = ""

InitGrid == heap = <<>> /\ last = NoCall

NextGrid ==
    \/ /\ heap = <<>>
       /\ \E axes \in SeqsUpTo(MaxGridRank, GridAxes) :
              NewBox(First(axes), Second(axes))
    \/ /\ heap = <<>>
       /\ \E item \in SeqsUpTo(MaxGridRank, GridSliceAxes) : GetItem(item)
    \/ /\ heap = <<>>
       /\ \E axes \in SeqsUpTo(MaxGridRank, GridCuboidAxes) :
              NewCuboid(First(axes), Second(axes))
    \/ /\ Len(heap) = 1
       /\ Constructed
       /\ \E resolution \in Resolutions : NewGridCell(resolution, 1)
    \/ Constructed /\ \E id \in Ids : \E other \in Others : EqCall(id, other)
    \/ Constructed /\ \E id \in Ids : \E other \in Others : NeCall(id, other)
    \/ Constructed /\ \E id \in Ids : HashCall(id)

SpecGrid == InitGrid /\ [][NextGrid]_vars

\* The center L + (i + 0.5) * (U - L) / n of cell i of n over [L, U].
CellCenter(L, U, n, i) ==
    Add(L, Div(Mul(Add(Num(i), Half), Sub(U, L)), Num(n)))

\* C3: a GridCell over finite bounds has one cell per grid point; on every
\* axis, with n cells over [L, U], cell i has its center at
\* L + (i + 0.5) * (U - L) / n, and every cell has half size (U - L) / (2n).
C3_GridCenters ==
    (last.op = "GridCell" /\ last.exc = "" /\ FiniteBox(heap[last.arg[2]]))
        => LET g == heap[last.ret]
               resolution == last.arg[1]
               bounds == heap[last.arg[2]]
           IN  /\ DOMAIN g.center = GridPoints(resolution)
               /\ \A idx \in GridPoints(resolution) :
                      \A d \in 1..Len(resolution) :
                          g.center[idx][d] =
                              CellCenter(At(lower(bounds), d),
                                         At(upper(bounds), d),
                                         resolution[d].size, idx[d])
               /\ \A d \in 1..Len(resolution) :
                      g.half_size[d] =
                          Div(Sub(At(upper(bounds), d), At(lower(bounds), d)),
                              Num(2 * resolution[d].size))

\* The scenario of the documentation: resolution 4 over [0, 1] has the
\* centers 0.125, 0.375, 0.625, 0.875 and half size 0.125.
C3_Witness ==
    /\ last.op = "GridCell"
    /\ last.exc = ""
    /\ heap[1] = Box(<<Num(0)>>, <<Num(1)>>)
    /\ heap[2].resolution = <<Dim("spatial", 4)>>
    /\ heap[2].center =
           [idx \in {<<0>>, <<1>>, <<2>>, <<3>>} |->
               <<Rat(2 * idx[1] + 1, 8)>>]
    /\ heap[2].half_size = <<Rat(1, 8)>>

\* C9: == between a box of any variant and an object that is no box returns
\* false and raises nothing.
C9_EqForeignIsFalse ==
    (last.op = "__eq__" /\ last.arg \in Foreign)
        => (last.exc = "" /\ last.ret = FALSE)

---------------------------------------------------------------------------
(* SpecPair: two boxes, each built by any of the three constructors, and   *)
(* contains, == and hash between them.                                     *)

PairBoxAxes == {<<Num(0), Num(1)>>, <<Num(0), Num(2)>>, <<Num(1), Num(2)>>}

PairCuboidAxes == {<<Num(1), Num(1)>>, <<Half, Half>>}

PairSliceAxes == {Slice(None, Num(5), None), Slice(None, None, None)}

InitPair == heap = <<>> /\ last = NoCall

NextPair ==
    \/ /\ Len(heap) < 2
       /\ \E axes \in SeqsUpTo(MaxRank, PairBoxAxes) :
              NewBox(First(axes), Second(axes))
    \/ /\ Len(heap) < 2
       /\ \E item \in SeqsUpTo(MaxRank, PairSliceAxes) : GetItem(item)
    \/ /\ Len(heap) < 2
       /\ \E axes \in SeqsUpTo(MaxRank, PairCuboidAxes) :
              NewCuboid(First(axes), Second(axes))
    \/ /\ Len(heap) = 2
       /\ Constructed
       /\ \E id \in Ids : \E other \in Others :
              /\ IsAbstractBox(other) => Broadcastable(lower(heap[id]), lower(other))
              /\ Contains(id, other)
    \/ /\ Len(heap) = 2
       /\ Constructed
       /\ \E id \in Ids : \E other \in Others : EqCall(id, other)
    \/ /\ Len(heap) = 2
       /\ Constructed
       /\ \E id \in Ids : HashCall(id)

SpecPair == InitPair /\ [][NextPair]_vars

\* u == v on every component, a single component standing for all.
SameOnEveryAxis(u, v) ==
    \A i \in 1..MaxInt(Len(u), Len(v)) : EqNum(At(u, i), At(v, i))

\* a.contains(b) has returned true, and b.contains(a) is true as well.
ContainEachOther ==
    /\ last.op = "contains"
    /\ last.exc = ""
    /\ last.ret = TRUE
    /\ contains(last.arg, heap[last.self])

\* C5: if a.contains(b) and b.contains(a), then a and b have equal lower and
\* equal upper on every axis.
C5_ContainsAntisymmetric ==
    ContainEachOther
        => /\ SameOnEveryAxis(lower(heap[last.self]), lower(last.arg))
           /\ SameOnEveryAxis(upper(heap[last.self]), upper(last.arg))

\* A Box and a Cuboid that are two objects with the same corners contain each
\* other.
C5_Witness ==
    /\ ContainEachOther
    /\ heap[last.self] = Box(<<Num(0), Num(0)>>, <<Num(2), Num(1)>>)
    /\ last.arg = Cuboid(<<Num(1), Half>>, <<Num(1), Half>>)

\* C10: two Box objects that compare equal have equal hashes.
C10_EqualBoxesHashEqual ==
    (/\ last.op = "__eq__"
     /\ heap[last.self].cls = "Box"
     /\ last.arg.cls = "Box"
     /\ last.ret = TRUE)
        => Hash(heap[last.self]) = Hash(last.arg)

---------------------------------------------------------------------------
(* SpecRadius: a finite Box of rank up to MaxRadiusRank and its bounding   *)
(* radius.                                                                 *)

MaxRadiusRank == 9

RadiusAxes == {<<Num(0), Num(1)>>, <<Num(0), Num(2)>>}

InitRadius == heap = <<>> /\ last = NoCall

NextRadius ==
    \/ /\ heap = <<>>
       /\ \E axes \in SeqsUpTo(MaxRadiusRank, RadiusAxes) :
              NewBox(First(axes), Second(axes))
    \/ Fresh /\ \E id \in Ids : BoundingRadius(id)
    \/ Fresh /\ \E id \in Ids : \E p \in {lower(heap[id]), upper(heap[id])} :
                     LiesInside(id, p)

SpecRadius == InitRadius /\ [][NextRadius]_vars

\* Natural numbers beyond 32 bits: the digits in base 1000, the least
\* significant first, no leading zero.
RECURSIVE Big(_)
Big(n) == IF n = 0 THEN <<>> ELSE <<n % 1000>> \o Big(n \div 1000)

\* The product of x and the small number k, plus carry.
RECURSIVE BigTimes(_, _, _)
BigTimes(x, k, carry) ==
    IF k = 0 THEN Big(carry)
    ELSE IF x = <<>> THEN Big(carry)
    ELSE LET t == x[1] * k + carry
         IN  <<t % 1000>> \o BigTimes(Tail(x), k, t \div 1000)

RECURSIVE BigLeq(_, _)
BigLeq(x, y) ==
    IF Len(x) # Len(y) THEN Len(x) < Len(y)
    ELSE IF Len(x) = 0 THEN TRUE
    ELSE IF x[Len(x)] # y[Len(y)] THEN x[Len(x)] < y[Len(y)]
    ELSE BigLeq(SubSeq(x, 1, Len(x) - 1), SubSeq(y, 1, Len(y) - 1))

\* The square of the Euclidean distance between the points p and c.
RECURSIVE DistSq(_, _)
DistSq(p, c) ==
    IF Len(p) = 0 THEN Num(0)
    ELSE Add(Mul(Sub(p[1], c[1]), Sub(p[1], c[1])), DistSq(Tail(p), Tail(c)))

\* The Euclidean distance between p and c is at most r, for finite p, c and
\* r >= 0: with |p - c|^2 = a/b and r = n/d, that a * d * d <= b * n * n.
WithinRadius(p, c, r) ==
    LET dsq == DistSq(p, c)
    IN  BigLeq(BigTimes(BigTimes(Big(dsq[1]), r[2], 0), r[2], 0),
               BigTimes(BigTimes(Big(dsq[2]), r[1], 0), r[1], 0))

\* The corners of b that lie inside b are within the radius r of its center.
\* No point of a box is farther from the center than its corners.
CornersWithin(b, r) ==
    \A p \in {lower(b), upper(b)} :
        lies_inside(b, p) => WithinRadius(p, center(b), r)

\* C6 as stated: for a box of any rank, every point inside the box is within
\* bounding_radius() of the center.
C6_RadiusEnclosesAnyRank ==
    last.op = "bounding_radius" => CornersWithin(heap[last.self], last.ret)

\* C6 amended: for a box with finite corners of rank at most 8, every point
\* inside the box is within bounding_radius() of the center.
C6_RadiusEnclosesUpToRank8 ==
    (/\ last.op = "bounding_radius"
     /\ FiniteBox(heap[last.self])
     /\ Len(size(heap[last.self])) <= 8)
        => CornersWithin(heap[last.self], last.ret)

\* The radius of the unit cube of rank 8 was taken: its corners are at
\* distance sqrt(8) / 2 from the center, just within 1.414214.
C6_Witness ==
    /\ last.op = "bounding_radius"
    /\ heap[last.self] = Box([i \in 1..8 |-> Num(0)], [i \in 1..8 |-> Num(1)])
    /\ last.ret = Rat(1414214, 1000000)
    /\ DistSq(lower(heap[last.self]), center(heap[last.self])) = Num(2)

---------------------------------------------------------------------------
(* Spec: a session.  One Box or Cuboid is constructed, then the operations *)
(* are applied in any order to it and to the objects they return, until    *)
(* MaxObjects objects exist.                                               *)

MaxObjects == 3

SessionBoxes ==
    {<<<<Num(1)>>, <<Num(6)>>>>,
     <<<<Num(0), Num(0)>>, <<Num(1), Num(2)>>>>}

SessionSlices == {<<Slice(None, Num(5), None)>>}

SessionCuboids ==
    {<<<<Num(1)>>, <<Num(1)>>>>,
     <<<<Num(1), Num(2)>>, <<Half>>>>}

SessionDeltas == {<<Num(1)>>}

SessionPoints == {<<Num(0)>>, <<Num(2)>>}

InstanceOps ==
    {"shifted", "corner_representation", "center_representation",
     "without_axis", "bounding_box"}

\* The last call returned an instance: the queries are explored from such
\* states only, as a query changes nothing the next call could see.
Made == (Fresh \/ last.op \in InstanceOps) /\ last.exc = ""

Init == heap = <<>> /\ last = NoCall

Next ==
    \/ heap = <<>> /\ \E b \in SessionBoxes : NewBox(b[1], b[2])
    \/ heap = <<>> /\ \E item \in SessionSlices : GetItem(item)
    \/ heap = <<>> /\ \E c \in SessionCuboids : NewCuboid(c[1], c[2])
    \/ /\ Len(heap) < MaxObjects
       /\ \E id \in Ids : \E delta \in SessionDeltas : Shifted(id, delta)
    \/ Len(heap) < MaxObjects /\ \E id \in Ids : CornerRepresentation(id)
    \/ Len(heap) < MaxObjects /\ \E id \in Ids : CenterRepresentation(id)
    \/ /\ Len(heap) < MaxObjects
       /\ \E id \in Ids : /\ rank(heap[id]) >= 2
                          /\ \E axis \in AxesOf(id) : WithoutAxis(id, axis)
    \/ Len(heap) < MaxObjects /\ \E id \in Ids : BoundingBox(id)
    \/ Made /\ \E id \in Ids : \E p \in SessionPoints : LiesInside(id, p)
    \/ Made /\ \E id \in Ids : \E p \in SessionPoints :
                    ApproximateSignedDistance(id, p)
    \/ Made /\ \E id \in Ids : \E p \in SessionPoints : GlobalToLocal(id, p)
    \/ Made /\ \E id \in Ids : \E p \in SessionPoints : LocalToGlobal(id, p)
    \/ Made /\ \E id \in Ids : \E other \in Ids :
                    /\ Broadcastable(lower(heap[id]), lower(heap[other]))
                    /\ Contains(id, heap[other])

Spec == Init /\ [][Next]_vars

SameAttributes(a, b) ==
    /\ lower(a) = lower(b)
    /\ upper(a) = upper(b)
    /\ center(a) = center(b)
    /\ half_size(a) = half_size(b)

\* C4: no operation changes the lower, upper, center or half_size of an
\* object that exists, and shifted, the representation conversions,
\* without_axis and bounding_box return a new instance, not the receiver.
C4_Immutable ==
    [][/\ \A i \in 1..Len(heap) :
              /\ i <= Len(heap')
              /\ heap'[i].cls = heap[i].cls
              /\ SameAttributes(heap'[i], heap[i])
       /\ (last'.op \in InstanceOps /\ last'.exc = "")
              => /\ last'.ret # last'.self
                 /\ last'.ret > Len(heap)
                 /\ last'.ret <= Len(heap')]_vars

\* Box(1, 6) was shifted and then converted: the shifted Box and the Cuboid
\* are new objects, and the receiver still reaches from 1 to 6.
C4_Witness ==
    /\ Len(heap) = 3
    /\ heap[1] = Box(<<Num(1)>>, <<Num(6)>>)
    /\ heap[2] = Box(<<Num(2)>>, <<Num(7)>>)
    /\ heap[3] = Cuboid(<<Rat(7, 2)>>, <<Rat(5, 2)>>)
    /\ last.op = "center_representation"
    /\ last.self = 1
    /\ last.ret = 3

===========================================================================
